---------------------------- MODULE Spec2Model ----------------------------
(***************************************************************************)
(* The paginated book-preview window of the book catalogue.                *)
(*                                                                         *)
(* The state is that of one BooksPreview object (src/modules/helpers.js,   *)
(* class BooksPreview) together with the two DOM elements it writes to:    *)
(* the list element that receives the book-preview elements and the        *)
(* show-more button.  Every public method of the class is one action.      *)
(***************************************************************************)
EXTENDS Integers, Sequences, FiniteSets, TLC

(***************************************************************************)
(* Bounds of the model.                                                    *)
(***************************************************************************)
\* number of books of the library (data.js is an input of the program)
LibraryLen == 74
\* number of distinct authors of the library
NumAuthors == 2
\* number of authors databases that can be passed to currentAuthorsSource
NumAuthorDbs == 2
\* cap on the page counter, which the code lets grow without limit
MaxPage == 4
\* number of distinct genres of the library
NumGenres == 2
\* number of distinct values of the title attribute of a dialog element
NumDialogTitles == 2
\* cap on the click listeners of a close button, which grow by one with
\* every connection of the element
MaxCloseListeners == 2

(***************************************************************************)
(* Program constants.                                                      *)
(***************************************************************************)
BOOKS_PER_PAGE == 36

\* the value null of the field #page
Null == -1

\* the value "any" of the first option of the authors and genres lists
any == 0

(***************************************************************************)
(* Plain helpers.                                                          *)
(***************************************************************************)
Min(a, b) == IF a <= b THEN a ELSE b

Max(a, b) == IF a >= b THEN a ELSE b

RECURSIVE Concat(_)
Concat(ss) == IF ss = <<>> THEN <<>> ELSE Head(ss) \o Concat(Tail(ss))

\* faulty variant of Slice: a start past the end is pulled back to the last
\* element instead of giving the empty array
Slice_LastKept(s, start, end) ==
    IF s = <<>>
    THEN <<>>
    ELSE SubSeq(s, Min(start + 1, Len(s)), Min(end, Len(s)))

\* Array.prototype.slice(start, end) for 0 <= start <= end: the elements at
\* the 0-based positions start .. min(end, length) - 1, none when start is
\* at or past the end of the array.
Slice(s, start, end) == SubSeq(s, start + 1, Min(end, Len(s)))

(***************************************************************************)
(* Strings, as sequences of characters over a small alphabet.              *)
(***************************************************************************)
\* String.prototype.toLowerCase, one character
lowerChar(c) == CASE c = "A" -> "a" [] c = "B" -> "b" [] OTHER -> c

\* String.prototype.toLowerCase
toLowerCase(str) == [i \in 1..Len(str) |-> lowerChar(str[i])]

\* String.prototype.includes: sub occurs in str at some offset
includes(str, sub) ==
    \E k \in 0..(Len(str) - Len(sub)) : SubSeq(str, k + 1, k + Len(sub)) = sub

\* String.prototype.trim: the string without its leading and trailing blanks
RECURSIVE trim(_)
trim(str) ==
    IF str = <<>> THEN <<>>
    ELSE IF Head(str) = " " THEN trim(Tail(str))
    ELSE IF str[Len(str)] = " " THEN trim(SubSeq(str, 1, Len(str) - 1))
    ELSE str

(***************************************************************************)
(* The data the program is loaded with.                                    *)
(***************************************************************************)
\* the titles the books of the library carry, in turn
Titles == << <<"A", "b">>, <<"b", "a">>, <<"B", " ", "a">> >>

GenreIds == 1..NumGenres

\* a BookItem, reduced to the properties the preview and the search read
\* (the image left out): every fifth book has two genres
BookItem(i) ==
    [id |-> i,
     author |-> ((i - 1) % NumAuthors) + 1,
     title |-> Titles[((i - 1) % Len(Titles)) + 1],
     genres |-> IF i % 5 = 0
                THEN <<(i % NumGenres) + 1, ((i + 1) % NumGenres) + 1>>
                ELSE <<(i % NumGenres) + 1>>]

\* the books library, in library order
books == [i \in 1..LibraryLen |-> BookItem(i)]

AuthorIds == 1..NumAuthors

\* an authors database: author id -> author name
AuthorsDb(v) == [a \in AuthorIds |-> 10 * v + a]

authors == AuthorsDb(1)

AuthorSources == {AuthorsDb(v) : v \in 1..NumAuthorDbs}

\* the lengths at which a library prefix is cut to make a books source
SourceLens == {0, BOOKS_PER_PAGE, BOOKS_PER_PAGE + 4, LibraryLen}

ByAuthor(a, b) == a = 0 \/ b.author = a

\* the books sources handed to the object: prefixes of the library, whole
\* or restricted to one author (0 stands for "any")
Sources ==
    {SelectSeq(SubSeq(books, 1, n), LAMBDA b : ByAuthor(a, b)) :
        n \in SourceLens, a \in {0} \cup AuthorIds}

VARIABLES
    page,           \* #page: Null or the number of pages loaded
    range,          \* #range: [start, end]
    booksSource,    \* #booksSource
    authorsSource,  \* #authorsSource
    targetElement,  \* children of #targetElement, in document order
    showMoreButton, \* #showMoreButton: [remaining, disabled]
    lastOp,         \* observer: the method or handler called last
    thrown,         \* observer: the error the last call threw, or "none"
    appended,       \* observer: the slices (as book ids) appended to the
                    \* list since the source was set, one per load call
    library,        \* the books array of data.js
    filters,        \* observer: the filters of the last search submitted
    message,        \* the list message has the class list__message_show
    dialog,         \* feature -> its dialog element is open
    theme,          \* the theme whose colours the style sheet carries
    booksPreviewObj,        \* the object createBooksPreview returns, with
                            \* the list and the button it writes:
                            \* [current, listItems, listButton]
    fragmentArgs,           \* the arguments of a createBookPreviewsHTML
                            \* call: [booksSource, pageNum]
    bookPreviewsFragment,   \* the children of the fragment it returned
    bookPreviewDialog       \* a book-preview-dialog element: its private
                            \* fields, its attributes, its inner dialog

\* the document outside the list and the button, and the library
appVars == <<library, filters, message, dialog, theme>>

\* the fields of a BooksPreview instance, its list and its button
instanceVars == <<page, range, booksSource, authorsSource, targetElement,
                  showMoreButton>>

\* the state of the two other variants of the module
variantVars == <<booksPreviewObj, fragmentArgs, bookPreviewsFragment>>

vars == <<page, range, booksSource, authorsSource, targetElement,
          showMoreButton, lastOp, thrown, appended, library, filters,
          message, dialog, theme, booksPreviewObj, fragmentArgs,
          bookPreviewsFragment, bookPreviewDialog>>

\* the features that have a dialog
Features == {"search", "list", "settings"}

\* the search form as it is before anything is typed or chosen
blankFilters == [title |-> <<>>, author |-> any, genre |-> any]

\* the page as it is served: no dialog open, no message, the day theme
documentInit ==
    /\ library = books
    /\ filters = blankFilters
    /\ message = FALSE
    /\ dialog = [f \in Features |-> FALSE]
    /\ theme = "day"

(***************************************************************************)
(* class BookPreviewDialog, the book-preview-dialog element                *)
(***************************************************************************)
\* document.createElement("book-preview-dialog") followed by setAttribute:
\* the field initialisers have run, #elements holds undefined entries, the
\* inner dialog of the template is closed.  A title attribute of 0 is an
\* absent one; #title is Null while undefined and 0 when the empty string.
createElement(openAttribute, titleAttribute) ==
    [open |-> FALSE,
     title |-> Null,
     elementsFound |-> FALSE,
     openAttribute |-> openAttribute,
     titleAttribute |-> titleAttribute,
     connected |-> FALSE,
     modal |-> FALSE,
     titleText |-> 0,
     closeListeners |-> 0]

\* no book-preview-dialog element is under observation
noBookPreviewDialog == bookPreviewDialog = createElement(FALSE, 0)

\* set open: the element after the call and the error thrown.  #open is
\* assigned before the dialog is tested; showModal of a dialog that is not
\* in a document throws InvalidStateError.
setOpen(el, newBoolValue) ==
    IF newBoolValue = el.open
    THEN [el |-> el, thrown |-> "none"]
    ELSE LET assigned == [el EXCEPT !.open = newBoolValue]
         IN IF ~el.elementsFound
            THEN [el |-> assigned,
                  thrown |-> "not an HTMLDialogElement"]
            ELSE IF newBoolValue
                 THEN IF el.connected
                      THEN [el |-> [assigned EXCEPT !.modal = TRUE],
                            thrown |-> "none"]
                      ELSE [el |-> assigned,
                            thrown |-> "InvalidStateError"]
                 ELSE [el |-> [assigned EXCEPT !.modal = FALSE],
                       thrown |-> "none"]

\* connectedCallback of an element just put into the document: open is set
\* from the attribute first, and a throw there ends the callback; then the
\* fields are read from the attributes, the elements of the template are
\* looked up and filled, and a click listener is added to the close button
connectedCallback(el) ==
    LET inDocument == [el EXCEPT !.connected = TRUE]
        opened == setOpen(inDocument, el.openAttribute)
    IN IF opened.thrown # "none"
       THEN opened
       ELSE [el |-> [opened.el EXCEPT
                        !.title = el.titleAttribute,
                        !.elementsFound = TRUE,
                        !.titleText = el.titleAttribute,
                        !.closeListeners = @ + 1],
             thrown |-> "none"]

\* the click listeners of the close button: open is set to false and the
\* element removed from the document; the listeners after the first find
\* nothing left to do
closeListener(el) ==
    LET closed == setOpen(el, FALSE)
    IN [el |-> [closed.el EXCEPT !.connected = FALSE],
        thrown |-> closed.thrown]

(***************************************************************************)
(* createBookPreviewsHTML and createBooksPreview                           *)
(***************************************************************************)
\* faulty variant of createBookPreviewsHTML: the ending range is the page
\* number times the page size
createBookPreviewsHTML_EndAtPage(source, pageNum) ==
    LET startingRange == pageNum * BOOKS_PER_PAGE
        endingRange == pageNum * BOOKS_PER_PAGE
        extractedBooks == Slice(source, startingRange, endingRange)
    IN [i \in 1..Len(extractedBooks) |->
           [id |-> extractedBooks[i].id,
            author |-> authors[extractedBooks[i].author]]]

\* createBookPreviewsHTML: the children of the fragment, one preview button
\* per extracted book, with the author read from the authors of data.js
createBookPreviewsHTML(source, pageNum) ==
    LET startingRange == pageNum * BOOKS_PER_PAGE
        endingRange == (pageNum + 1) * BOOKS_PER_PAGE
        extractedBooks == Slice(source, startingRange, endingRange)
    IN [i \in 1..Len(extractedBooks) |->
           [id |-> extractedBooks[i].id,
            author |-> authors[extractedBooks[i].author]]]

\* the object createBooksPreview makes: current.page starts at 1; the list
\* and the button are as the document has them
createBooksPreview(source) ==
    [current |-> [page |-> 1, booksSource |-> source],
     listItems |-> <<>>,
     listButton |-> [remaining |-> Null, disabled |-> FALSE]]

\* current.updateRemainingBooks: (check > 0 && check) || 0 goes into the
\* button, and disableListButton is called when it is 0
objUpdateRemainingBooks(o) ==
    LET checkBooksInLibrary ==
            Len(o.current.booksSource) - o.current.page * BOOKS_PER_PAGE
        remaining == IF checkBooksInLibrary > 0
                     THEN checkBooksInLibrary ELSE 0
    IN [o EXCEPT !.listButton =
           [remaining |-> remaining,
            disabled |-> IF remaining = 0 THEN TRUE ELSE @.disabled]]

\* faulty variant of objLoadFirstPage: the page is left as it is
objLoadFirstPage_PageKept(o) ==
    objUpdateRemainingBooks(
        [o EXCEPT !.listItems =
                      createBookPreviewsHTML(o.current.booksSource, 0)])

\* loadFirstPage of the object
objLoadFirstPage(o) ==
    objUpdateRemainingBooks(
        [o EXCEPT !.current.page = 1,
                  !.listItems =
                      createBookPreviewsHTML(o.current.booksSource, 0)])

\* faulty variant of objLoadNextPage: the page is stepped before the
\* fragment is made
objLoadNextPage_StepsFirst(o) ==
    objUpdateRemainingBooks(
        [o EXCEPT !.listItems =
                      @ \o createBookPreviewsHTML(o.current.booksSource,
                                                  o.current.page + 1),
                  !.current.page = @ + 1])

\* loadNextPage of the object
objLoadNextPage(o) ==
    objUpdateRemainingBooks(
        [o EXCEPT !.listItems =
                      @ \o createBookPreviewsHTML(o.current.booksSource,
                                                  o.current.page),
                  !.current.page = @ + 1])

\* set currentBooksSource of the object
objSetCurrentBooksSource(o, newBooksSource) ==
    [o EXCEPT !.current.booksSource = newBooksSource]

\* booksPreviewObj as the module leaves it: made over the library, its
\* first page loaded
objLoaded ==
    booksPreviewObj = objLoadFirstPage(createBooksPreview(books))

\* no call of createBookPreviewsHTML is under observation
fragmentIdle ==
    /\ fragmentArgs = [booksSource |-> <<>>, pageNum |-> 0]
    /\ bookPreviewsFragment = <<>>

(***************************************************************************)
(* class BooksPreview                                                      *)
(***************************************************************************)
\* #createBookPreviewElement: the book-preview element of one book
createBookPreviewElement(singleBook) ==
    [id |-> singleBook.id, author |-> authorsSource[singleBook.author]]

\* extractedBooks.map(this.#createBookPreviewElement)
createElements(extractedBooks) ==
    [i \in 1..Len(extractedBooks) |->
        createBookPreviewElement(extractedBooks[i])]

\* faulty variant of remainingBooks: the books loaded are counted, not
\* those that remain
remainingBooks_Loaded(source, pg) == Min(Len(source), pg * BOOKS_PER_PAGE)

\* faulty variant of remainingBooks: the difference without Math.max
remainingBooks_Unclamped(source, pg) == Len(source) - pg * BOOKS_PER_PAGE

\* the count #updateRemainingBooks writes into the button
remainingBooks(source, pg) == Max(0, Len(source) - pg * BOOKS_PER_PAGE)

\* faulty variant of #updateRemainingBooks: the count is written, the button
\* is never disabled
updateRemainingBooks_NeverDisables(button, source, pg) ==
    IF pg = Null
    THEN button
    ELSE [remaining |-> remainingBooks(source, pg),
          disabled |-> button.disabled]

\* #updateRemainingBooks, for the page and the source given
updateRemainingBooks(button, source, pg) ==
    IF pg = Null
    THEN button
    ELSE [remaining |-> remainingBooks(source, pg),
          disabled |-> IF remainingBooks(source, pg) = 0
                       THEN TRUE ELSE button.disabled]

\* the value of #range a new object starts with
initialRange == [start |-> 0, end |-> BOOKS_PER_PAGE]

\* faulty variant of nextRange: a step one short of a page
nextRange_ShortStep(r) ==
    [start |-> r.start + BOOKS_PER_PAGE - 1, end |-> r.end + BOOKS_PER_PAGE - 1]

\* faulty variant of nextRange: only the end moves
nextRange_StartKept(r) == [start |-> r.start, end |-> r.end + BOOKS_PER_PAGE]

\* loadNextPage moves both ends of #range one page on
nextRange(r) ==
    [start |-> r.start + BOOKS_PER_PAGE, end |-> r.end + BOOKS_PER_PAGE]

\* faulty variant of nextPage: the counter moves by two
nextPage_Skip(pg) == pg + 2

\* loadNextPage: this.#page += 1
nextPage(pg) == pg + 1

\* faulty variant of alreadyLoaded: true from the second page only
alreadyLoaded_FromSecond(pg) == pg > 1

\* loadFirstPage: this.#page !== null
alreadyLoaded(pg) == pg # Null

\* faulty variant of notLoaded: a comparison with undefined, never true
notLoaded_Undefined(pg) == FALSE

\* loadNextPage: this.#page === null
notLoaded(pg) == pg = Null

\* the ids of a list of book-preview elements
Ids(elements) == [i \in 1..Len(elements) |-> elements[i].id]

\* an instance as the constructor leaves it, over one of the sources
constructed ==
    /\ page = Null
    /\ range = initialRange
    /\ booksSource \in Sources
    /\ authorsSource = authors
    /\ targetElement = <<>>
    /\ showMoreButton = [remaining |-> Null, disabled |-> FALSE]
    /\ lastOp = "constructor"
    /\ thrown = "none"
    /\ appended = <<>>

\* the state the checks of the class start from: an instance just made,
\* beside the document and the other variants as the modules leave them
Init ==
    /\ constructed
    /\ documentInit
    /\ noBookPreviewDialog
    /\ objLoaded
    /\ fragmentIdle

\* faulty variant of loadFirstPage: innerHTML is not cleared
loadFirstPage_NoClear ==
    /\ lastOp' = "loadFirstPage"
    /\ IF alreadyLoaded(page)
       THEN /\ thrown' = "The first page has already been loaded"
            /\ UNCHANGED <<page, range, booksSource, authorsSource,
                           targetElement, showMoreButton, appended>>
       ELSE LET extractedBooks == Slice(booksSource, range.start, range.end)
                bookPreviewElements == createElements(extractedBooks)
            IN /\ targetElement' = targetElement \o bookPreviewElements
               /\ page' = 1
               /\ showMoreButton' =
                      updateRemainingBooks(showMoreButton, booksSource, 1)
               /\ thrown' = "none"
               /\ appended' = <<Ids(bookPreviewElements)>>
               /\ UNCHANGED <<range, booksSource, authorsSource>>

\* faulty variant of loadFirstPage: #updateRemainingBooks is called before
\* #page is set
loadFirstPage_CountFirst ==
    /\ lastOp' = "loadFirstPage"
    /\ IF alreadyLoaded(page)
       THEN /\ thrown' = "The first page has already been loaded"
            /\ UNCHANGED <<page, range, booksSource, authorsSource,
                           targetElement, showMoreButton, appended>>
       ELSE LET extractedBooks == Slice(booksSource, range.start, range.end)
                bookPreviewElements == createElements(extractedBooks)
            IN /\ targetElement' = bookPreviewElements
               /\ showMoreButton' =
                      updateRemainingBooks(showMoreButton, booksSource, page)
               /\ page' = 1
               /\ thrown' = "none"
               /\ appended' = <<Ids(bookPreviewElements)>>
               /\ UNCHANGED <<range, booksSource, authorsSource>>

loadFirstPage ==
    /\ lastOp' = "loadFirstPage"
    /\ IF alreadyLoaded(page)
       THEN /\ thrown' = "The first page has already been loaded"
            /\ UNCHANGED <<page, range, booksSource, authorsSource,
                           targetElement, showMoreButton, appended>>
       ELSE LET extractedBooks == Slice(booksSource, range.start, range.end)
                bookPreviewElements == createElements(extractedBooks)
            IN /\ targetElement' = bookPreviewElements
               /\ page' = 1
               /\ showMoreButton' =
                      updateRemainingBooks(showMoreButton, booksSource, 1)
               /\ thrown' = "none"
               /\ appended' = <<Ids(bookPreviewElements)>>
               /\ UNCHANGED <<range, booksSource, authorsSource>>

\* faulty variant of loadNextPage: the range is advanced before the page is
\* tested
loadNextPage_StepsFirst ==
    /\ page < MaxPage
    /\ lastOp' = "loadNextPage"
    /\ range' = nextRange(range)
    /\ IF notLoaded(page)
       THEN /\ thrown' = "The first page has not been loaded yet"
            /\ UNCHANGED <<page, booksSource, authorsSource,
                           targetElement, showMoreButton, appended>>
       ELSE LET extractedBooks ==
                    Slice(booksSource, nextRange(range).start,
                          nextRange(range).end)
                bookPreviewElements == createElements(extractedBooks)
            IN /\ targetElement' = targetElement \o bookPreviewElements
               /\ page' = nextPage(page)
               /\ showMoreButton' =
                      updateRemainingBooks(showMoreButton, booksSource,
                                           nextPage(page))
               /\ thrown' = "none"
               /\ appended' = Append(appended, Ids(bookPreviewElements))
               /\ UNCHANGED <<booksSource, authorsSource>>

\* faulty variant of loadNextPage: splice in place of slice, which takes the
\* extracted books out of the source
loadNextPage_Splice ==
    /\ page < MaxPage
    /\ lastOp' = "loadNextPage"
    /\ IF notLoaded(page)
       THEN /\ thrown' = "The first page has not been loaded yet"
            /\ UNCHANGED <<page, range, booksSource, authorsSource,
                           targetElement, showMoreButton, appended>>
       ELSE LET extractedBooks ==
                    Slice(booksSource, nextRange(range).start,
                          nextRange(range).end)
                bookPreviewElements == createElements(extractedBooks)
            IN /\ range' = nextRange(range)
               /\ booksSource' =
                      Slice(booksSource, 0, nextRange(range).start)
               /\ targetElement' = targetElement \o bookPreviewElements
               /\ page' = nextPage(page)
               /\ showMoreButton' =
                      updateRemainingBooks(showMoreButton, booksSource,
                                           nextPage(page))
               /\ thrown' = "none"
               /\ appended' = Append(appended, Ids(bookPreviewElements))
               /\ UNCHANGED authorsSource

loadNextPage ==
    /\ page < MaxPage
    /\ lastOp' = "loadNextPage"
    /\ IF notLoaded(page)
       THEN /\ thrown' = "The first page has not been loaded yet"
            /\ UNCHANGED <<page, range, booksSource, authorsSource,
                           targetElement, showMoreButton, appended>>
       ELSE LET extractedBooks ==
                    Slice(booksSource, nextRange(range).start,
                          nextRange(range).end)
                bookPreviewElements == createElements(extractedBooks)
            IN /\ range' = nextRange(range)
               /\ targetElement' = targetElement \o bookPreviewElements
               /\ page' = nextPage(page)
               /\ showMoreButton' =
                      updateRemainingBooks(showMoreButton, booksSource,
                                           nextPage(page))
               /\ thrown' = "none"
               /\ appended' = Append(appended, Ids(bookPreviewElements))
               /\ UNCHANGED <<booksSource, authorsSource>>

\* faulty variant of the currentPage setter: the value is assigned
setCurrentPage_Assigns ==
    \E newPageNum \in 1..MaxPage :
        /\ page' = newPageNum
        /\ lastOp' = "set currentPage"
        /\ thrown' = "none"
        /\ UNCHANGED <<range, booksSource, authorsSource, targetElement,
                       showMoreButton, appended>>

setCurrentPage ==
    /\ lastOp' = "set currentPage"
    /\ thrown' = "Cannot change the page number"
    /\ UNCHANGED <<page, range, booksSource, authorsSource, targetElement,
                   showMoreButton, appended>>

\* faulty variant of the setter: #range is not reset
setCurrentBooksSource_RangeKept ==
    \E newBooksSource \in Sources :
        /\ page' = Null
        /\ booksSource' = newBooksSource
        /\ lastOp' = "set currentBooksSource"
        /\ thrown' = "none"
        /\ appended' = <<>>
        /\ UNCHANGED <<range, authorsSource, targetElement, showMoreButton>>

\* faulty variant of the setter: #page is not reset
setCurrentBooksSource_PageKept ==
    \E newBooksSource \in Sources :
        /\ range' = initialRange
        /\ booksSource' = newBooksSource
        /\ lastOp' = "set currentBooksSource"
        /\ thrown' = "none"
        /\ appended' = <<>>
        /\ UNCHANGED <<page, authorsSource, targetElement, showMoreButton>>

\* faulty variant of the setter: the list is cleared, as the setter's
\* comment has it
setCurrentBooksSource_Clears ==
    \E newBooksSource \in Sources :
        /\ range' = initialRange
        /\ page' = Null
        /\ booksSource' = newBooksSource
        /\ targetElement' = <<>>
        /\ lastOp' = "set currentBooksSource"
        /\ thrown' = "none"
        /\ appended' = <<>>
        /\ UNCHANGED <<authorsSource, showMoreButton>>

\* faulty variant of the setter: the length of the new source is written
\* into the button
setCurrentBooksSource_Counts ==
    \E newBooksSource \in Sources :
        /\ range' = initialRange
        /\ page' = Null
        /\ booksSource' = newBooksSource
        /\ showMoreButton' = [showMoreButton EXCEPT
                                 !.remaining = Len(newBooksSource)]
        /\ lastOp' = "set currentBooksSource"
        /\ thrown' = "none"
        /\ appended' = <<>>
        /\ UNCHANGED <<authorsSource, targetElement>>

setCurrentBooksSource ==
    \E newBooksSource \in Sources :
        /\ range' = initialRange
        /\ page' = Null
        /\ booksSource' = newBooksSource
        /\ lastOp' = "set currentBooksSource"
        /\ thrown' = "none"
        /\ appended' = <<>>
        /\ UNCHANGED <<authorsSource, targetElement, showMoreButton>>

setCurrentAuthorsSource ==
    \E newAuthorsSource \in AuthorSources :
        /\ authorsSource' = newAuthorsSource
        /\ lastOp' = "set currentAuthorsSource"
        /\ thrown' = "none"
        /\ UNCHANGED <<page, range, booksSource, targetElement,
                       showMoreButton, appended>>

Next ==
    \/ loadFirstPage /\ UNCHANGED <<appVars, variantVars, bookPreviewDialog>>
    \/ loadNextPage /\ UNCHANGED <<appVars, variantVars, bookPreviewDialog>>
    \/ setCurrentPage /\ UNCHANGED <<appVars, variantVars, bookPreviewDialog>>
    \/ setCurrentBooksSource /\ UNCHANGED <<appVars, variantVars, bookPreviewDialog>>
    \/ setCurrentAuthorsSource /\ UNCHANGED <<appVars, variantVars, bookPreviewDialog>>

Spec == Init /\ [][Next]_vars

TypeOK ==
    /\ page \in {Null} \cup 1..MaxPage
    /\ booksSource \in Sources
    /\ authorsSource \in AuthorSources
    /\ showMoreButton.disabled \in BOOLEAN
    /\ thrown \in {"none", "The first page has already been loaded",
                   "The first page has not been loaded yet",
                   "Cannot change the page number"}

(***************************************************************************)
(* scripts.js: the page with its event listeners                           *)
(***************************************************************************)
\* faulty variant of handleToggleDialog: the dialog is shown, never closed
handleToggleDialog_ShowsOnly(d, feature) ==
    [d EXCEPT ![feature] = TRUE]

\* handleToggleDialog: the dialogs after the call, close() on an open
\* dialog and showModal() on a closed one
handleToggleDialog(d, feature) ==
    [d EXCEPT ![feature] = IF d[feature] THEN FALSE ELSE TRUE]

\* the titles typed into the search form
TitleInputs ==
    {<<>>, <<" ">>, <<"a">>, <<"B">>, <<"a", "B">>, <<" ", "a">>,
     <<"b", "b">>}

\* Object.fromEntries(formData): what a submitted search form can hold
FilterInputs ==
    [title : TitleInputs,
     author : {any} \cup AuthorIds,
     genre : {any} \cup GenreIds]

\* the loop over book.genres, from position i on: it stops at the first
\* match and leaves genreMatch as it is when there is none
RECURSIVE genreLoop(_, _, _, _)
genreLoop(genres, genre, i, genreMatch) ==
    IF i > Len(genres) \/ genreMatch
    THEN genreMatch
    ELSE genreLoop(genres, genre, i + 1, genres[i] = genre)

\* faulty variant of titleMatch: the typed title is not lower-cased
titleMatch_TypedAsIs(f, b) ==
    \/ trim(f.title) = <<>>
    \/ includes(toLowerCase(b.title), f.title)

\* the title test of the search
titleMatch(f, b) ==
    \/ trim(f.title) = <<>>
    \/ includes(toLowerCase(b.title), toLowerCase(f.title))

\* the test that pushes a book onto the result
bookMatches(f, b) ==
    /\ titleMatch(f, b)
    /\ (f.author = any \/ b.author = f.author)
    /\ genreLoop(b.genres, f.genre, 1, f.genre = any)

\* the loop over the books: the books that pass the test are pushed onto
\* the result in the order the library has them
filterBooks(lib, f) == SelectSeq(lib, LAMBDA b : bookMatches(f, b))

\* every search over the library as data.js has it, with its result,
\* worked out once
resultsOverBooks ==
    {[filters |-> f, result |-> filterBooks(books, f)] : f \in FilterInputs}

\* the result of a search over the library lib: filterBooks(lib, f)
searchResult(lib, f) ==
    IF lib = books
    THEN (CHOOSE r \in resultsOverBooks : r.filters = f).result
    ELSE filterBooks(lib, f)

\* faulty variant of messageClass: the class is added and never removed
messageClass_AddOnly(shown, result) ==
    IF Len(result) < 1 THEN TRUE ELSE shown

\* whether the message of the list carries the class list__message_show
\* once the handler has added or removed it
messageClass(shown, result) ==
    IF Len(result) < 1 THEN TRUE ELSE FALSE

\* faulty variant of AppInit: the object is made and its first page is not
\* loaded
AppInit_NotLoaded ==
    /\ documentInit
    /\ noBookPreviewDialog
    /\ booksSource = books
    /\ authorsSource = authors
    /\ range = initialRange
    /\ page = Null
    /\ targetElement = <<>>
    /\ showMoreButton = [remaining |-> Null, disabled |-> FALSE]
    /\ lastOp = "constructor"
    /\ thrown = "none"
    /\ appended = <<>>
    /\ objLoaded
    /\ fragmentIdle

\* the state after the module of the class and scripts.js are loaded: the
\* object is made over the library and its first page is loaded
moduleLoaded ==
    /\ booksSource = books
    /\ authorsSource = authors
    /\ range = initialRange
    /\ page = 1
    /\ targetElement = createElements(Slice(books, 0, BOOKS_PER_PAGE))
    /\ showMoreButton =
           updateRemainingBooks([remaining |-> Null, disabled |-> FALSE],
                                books, 1)
    /\ lastOp = "loadFirstPage"
    /\ thrown = "none"
    /\ appended = <<Ids(targetElement)>>

\* the state after the modules and scripts.js are loaded
AppInit ==
    /\ documentInit
    /\ noBookPreviewDialog
    /\ moduleLoaded
    /\ objLoaded
    /\ fragmentIdle

\* faulty variant of handleBookFilterSearch: the result is not assigned to
\* currentBooksSource before loadFirstPage is called
handleBookFilterSearch_NoReplace ==
    \E f \in FilterInputs :
        LET result == searchResult(library, f)
        IN /\ filters' = f
           /\ message' = messageClass(message, result)
           /\ lastOp' = "handleBookFilterSearch"
           /\ IF alreadyLoaded(page)
              THEN /\ thrown' = "The first page has already been loaded"
                   /\ UNCHANGED <<page, range, booksSource, targetElement,
                                  showMoreButton, appended, dialog>>
              ELSE LET bookPreviewElements ==
                           createElements(Slice(booksSource, range.start,
                                                range.end))
                   IN /\ targetElement' = bookPreviewElements
                      /\ page' = 1
                      /\ showMoreButton' =
                             updateRemainingBooks(showMoreButton,
                                                  booksSource, 1)
                      /\ thrown' = "none"
                      /\ appended' = <<Ids(bookPreviewElements)>>
                      /\ dialog' = handleToggleDialog(dialog, "search")
                      /\ UNCHANGED <<range, booksSource>>
           /\ UNCHANGED <<authorsSource, library, theme>>

\* faulty variant of handleBookFilterSearch: the list is not emptied before
\* the first page of the result is appended
handleBookFilterSearch_NoClear ==
    \E f \in FilterInputs :
        LET result == searchResult(library, f)
            bookPreviewElements ==
                createElements(Slice(result, initialRange.start,
                                     initialRange.end))
        IN /\ filters' = f
           /\ message' = messageClass(message, result)
           /\ booksSource' = result
           /\ range' = initialRange
           /\ lastOp' = "handleBookFilterSearch"
           /\ targetElement' = targetElement \o bookPreviewElements
           /\ page' = 1
           /\ showMoreButton' =
                  updateRemainingBooks(showMoreButton, result, 1)
           /\ thrown' = "none"
           /\ appended' = <<Ids(bookPreviewElements)>>
           /\ dialog' = handleToggleDialog(dialog, "search")
           /\ UNCHANGED <<authorsSource, library, theme>>

\* handleBookFilterSearch, the submit listener of the search form: the
\* result is computed and the message set, the result is assigned to
\* currentBooksSource (which resets #range and #page), loadFirstPage is
\* called and the search dialog toggled.  A form holds strings only, so the
\* handler's test of the title's type never throws; scrollTo and the form's
\* reset leave the state modelled here alone.
handleBookFilterSearch ==
    \E f \in FilterInputs :
        LET result == searchResult(library, f)
        IN /\ filters' = f
           /\ message' = messageClass(message, result)
           /\ booksSource' = result
           /\ range' = initialRange
           /\ lastOp' = "handleBookFilterSearch"
           /\ IF alreadyLoaded(Null)
              THEN /\ thrown' = "The first page has already been loaded"
                   /\ page' = Null
                   /\ appended' = <<>>
                   /\ UNCHANGED <<targetElement, showMoreButton, dialog>>
              ELSE LET bookPreviewElements ==
                           createElements(Slice(result, initialRange.start,
                                                initialRange.end))
                   IN /\ targetElement' = bookPreviewElements
                      /\ page' = 1
                      /\ showMoreButton' =
                             updateRemainingBooks(showMoreButton, result, 1)
                      /\ thrown' = "none"
                      /\ appended' = <<Ids(bookPreviewElements)>>
                      /\ dialog' = handleToggleDialog(dialog, "search")
           /\ UNCHANGED <<authorsSource, library, theme>>

\* a click listener that only toggles the dialog of a feature
toggleClick(feature) ==
    /\ dialog' = handleToggleDialog(dialog, feature)
    /\ lastOp' = "handleToggleDialog"
    /\ thrown' = "none"
    /\ UNCHANGED <<page, range, booksSource, authorsSource, targetElement,
                   showMoreButton, appended, library, filters, message,
                   theme>>

\* toggleThemeHandler, the submit listener of the settings form
toggleThemeHandler ==
    \E newTheme \in {"day", "night"} :
        /\ theme' = newTheme
        /\ dialog' = handleToggleDialog(dialog, "settings")
        /\ lastOp' = "toggleThemeHandler"
        /\ thrown' = "none"
        /\ UNCHANGED <<page, range, booksSource, authorsSource,
                       targetElement, showMoreButton, appended, library,
                       filters, message>>

\* the click listener of the show-more button is loadNextPage itself; a
\* disabled button dispatches no click
showMoreClick ==
    /\ ~showMoreButton.disabled
    /\ loadNextPage
    /\ UNCHANGED appVars

AppNext ==
    \/ toggleClick("search") /\ UNCHANGED <<variantVars, bookPreviewDialog>>
    \/ toggleClick("settings") /\ UNCHANGED <<variantVars, bookPreviewDialog>>
    \/ showMoreClick /\ UNCHANGED <<variantVars, bookPreviewDialog>>
    \/ handleBookFilterSearch /\ UNCHANGED <<variantVars, bookPreviewDialog>>
    \/ toggleThemeHandler /\ UNCHANGED <<variantVars, bookPreviewDialog>>

AppSpec == AppInit /\ [][AppNext]_vars

(***************************************************************************)
(* The class and the object of createBooksPreview, side by side            *)
(***************************************************************************)
\* an instance and an object made over the same source
PairInit ==
    /\ constructed
    /\ booksPreviewObj = createBooksPreview(booksSource)
    /\ documentInit
    /\ noBookPreviewDialog
    /\ fragmentIdle

\* loadFirstPage on both, as the first call or after a replacement
bothLoadFirstPage ==
    /\ page = Null
    /\ loadFirstPage
    /\ booksPreviewObj' = objLoadFirstPage(booksPreviewObj)
    /\ UNCHANGED <<appVars, fragmentArgs, bookPreviewsFragment, bookPreviewDialog>>

\* loadNextPage on both
bothLoadNextPage ==
    /\ page # Null
    /\ loadNextPage
    /\ booksPreviewObj' = objLoadNextPage(booksPreviewObj)
    /\ UNCHANGED <<appVars, fragmentArgs, bookPreviewsFragment, bookPreviewDialog>>

\* the same source assigned to currentBooksSource of both; loadFirstPage
\* is what follows
bothSetCurrentBooksSource ==
    /\ page # Null
    /\ setCurrentBooksSource
    /\ booksPreviewObj' =
           objSetCurrentBooksSource(booksPreviewObj, booksSource')
    /\ UNCHANGED <<appVars, fragmentArgs, bookPreviewsFragment, bookPreviewDialog>>

PairNext ==
    \/ bothLoadFirstPage
    \/ bothLoadNextPage
    \/ bothSetCurrentBooksSource

PairSpec == PairInit /\ [][PairNext]_vars

(***************************************************************************)
(* The object of createBooksPreview, its methods called in any order       *)
(***************************************************************************)
callObjLoadFirstPage ==
    /\ booksPreviewObj' = objLoadFirstPage(booksPreviewObj)
    /\ lastOp' = "booksPreviewObj.loadFirstPage"
    /\ thrown' = "none"
    /\ UNCHANGED <<instanceVars, appended, appVars, fragmentArgs,
                   bookPreviewsFragment, bookPreviewDialog>>

callObjLoadNextPage ==
    /\ booksPreviewObj.current.page < MaxPage
    /\ booksPreviewObj' = objLoadNextPage(booksPreviewObj)
    /\ lastOp' = "booksPreviewObj.loadNextPage"
    /\ thrown' = "none"
    /\ UNCHANGED <<instanceVars, appended, appVars, fragmentArgs,
                   bookPreviewsFragment, bookPreviewDialog>>

callObjSetCurrentBooksSource ==
    \E newBooksSource \in Sources :
        /\ booksPreviewObj' =
               objSetCurrentBooksSource(booksPreviewObj, newBooksSource)
        /\ lastOp' = "set booksPreviewObj.currentBooksSource"
        /\ thrown' = "none"
        /\ UNCHANGED <<instanceVars, appended, appVars, fragmentArgs,
                       bookPreviewsFragment, bookPreviewDialog>>

ObjNext ==
    \/ callObjLoadFirstPage
    \/ callObjLoadNextPage
    \/ callObjSetCurrentBooksSource

ObjSpec == AppInit /\ [][ObjNext]_vars

(***************************************************************************)
(* createBookPreviewsHTML, called once on given arguments                  *)
(***************************************************************************)
\* the arguments: a library that is the first k books of data.js, and a
\* page number
FragmentInputs ==
    [booksSource : {SubSeq(books, 1, k) : k \in 0..LibraryLen},
     pageNum : 0..MaxPage]

FragmentInit ==
    /\ documentInit
    /\ noBookPreviewDialog
    /\ moduleLoaded
    /\ objLoaded
    /\ fragmentArgs \in FragmentInputs
    /\ bookPreviewsFragment = <<>>

callCreateBookPreviewsHTML ==
    /\ bookPreviewsFragment' =
           createBookPreviewsHTML(fragmentArgs.booksSource,
                                  fragmentArgs.pageNum)
    /\ lastOp' = "createBookPreviewsHTML"
    /\ thrown' = "none"
    /\ UNCHANGED <<instanceVars, appended, appVars, booksPreviewObj,
                   fragmentArgs, bookPreviewDialog>>

FragmentSpec == FragmentInit /\ [][callCreateBookPreviewsHTML]_vars

(***************************************************************************)
(* A book-preview-dialog element: connection, the open setter, the close   *)
(* button                                                                  *)
(***************************************************************************)
DialogInit ==
    /\ documentInit
    /\ moduleLoaded
    /\ objLoaded
    /\ fragmentIdle
    /\ \E openAttribute \in BOOLEAN, titleAttribute \in 0..NumDialogTitles :
           bookPreviewDialog = createElement(openAttribute, titleAttribute)

\* the element is put into the document
connect ==
    /\ ~bookPreviewDialog.connected
    /\ bookPreviewDialog.closeListeners < MaxCloseListeners
    /\ bookPreviewDialog' = connectedCallback(bookPreviewDialog).el
    /\ thrown' = connectedCallback(bookPreviewDialog).thrown
    /\ lastOp' = "connectedCallback"
    /\ UNCHANGED <<instanceVars, appended, appVars, variantVars>>

\* an assignment to open
callSetOpen ==
    \E newBoolValue \in BOOLEAN :
        /\ bookPreviewDialog' = setOpen(bookPreviewDialog, newBoolValue).el
        /\ thrown' = setOpen(bookPreviewDialog, newBoolValue).thrown
        /\ lastOp' = "set open"
        /\ UNCHANGED <<instanceVars, appended, appVars, variantVars>>

\* a click on the close button, which shows while the dialog does
closeClick ==
    /\ bookPreviewDialog.closeListeners > 0
    /\ bookPreviewDialog.connected
    /\ bookPreviewDialog.modal
    /\ bookPreviewDialog' = closeListener(bookPreviewDialog).el
    /\ thrown' = closeListener(bookPreviewDialog).thrown
    /\ lastOp' = "close click"
    /\ UNCHANGED <<instanceVars, appended, appVars, variantVars>>

DialogNext ==
    \/ connect
    \/ callSetOpen
    \/ closeClick

DialogSpec == DialogInit /\ [][DialogNext]_vars

(***************************************************************************)
(* Vocabulary of the properties.                                           *)
(***************************************************************************)
\* the last call was a load method and it returned normally
Loaded(op) == lastOp = op /\ thrown = "none"

\* the elements of the first n books of the source, n capped at its length
RenderedPrefix(source, n) ==
    [i \in 1..Min(n, Len(source)) |-> createBookPreviewElement(source[i])]

\* the ids of the first n books of the source, n capped at its length
IdPrefix(source, n) == [i \in 1..Min(n, Len(source)) |-> source[i].id]

\* everything a rejected call must leave alone
window == <<page, range, booksSource, authorsSource, targetElement,
            showMoreButton>>

(***************************************************************************)
(* The first page.                                                         *)
(***************************************************************************)
\* C1: a loadFirstPage that returns normally leaves exactly the elements of
\* the first min(36, |S|) books of the source in the list, in source order,
\* page 1, and the count max(0, |S| - 36) on the button.
C1_FirstPage ==
    Loaded("loadFirstPage") =>
        /\ targetElement = RenderedPrefix(booksSource, BOOKS_PER_PAGE)
        /\ Len(targetElement) = Min(BOOKS_PER_PAGE, Len(booksSource))
        /\ page = 1
        /\ showMoreButton.remaining =
               Max(0, Len(booksSource) - BOOKS_PER_PAGE)

\* a first page cut out of a source longer than a page, loaded over the
\* elements of an earlier source
C1_Witness ==
    /\ Loaded("loadFirstPage")
    /\ Len(booksSource) > BOOKS_PER_PAGE
    /\ Len(targetElement) = BOOKS_PER_PAGE
    /\ showMoreButton.remaining = Len(booksSource) - BOOKS_PER_PAGE
    /\ showMoreButton.disabled

(***************************************************************************)
(* Successive pages.                                                       *)
(***************************************************************************)
\* C2: after one loadFirstPage and k loadNextPage calls on the same source,
\* the k + 1 appended slices, concatenated in call order, are the first
\* min(|S|, (k + 1) * 36) books of the source: nothing twice, nothing
\* skipped, nothing out of order; and they are what the list holds.
C2_SlicesArePrefix ==
    appended # <<>> =>
        /\ Concat(appended) =
               IdPrefix(booksSource, Len(appended) * BOOKS_PER_PAGE)
        /\ Ids(targetElement) = Concat(appended)
        /\ \A i, j \in 1..Len(targetElement) :
               targetElement[i].id = targetElement[j].id => i = j

\* three calls that between them appended the whole library, the last
\* slice a partial one
C2_Witness ==
    /\ Len(appended) = 3
    /\ Len(appended[2]) = BOOKS_PER_PAGE
    /\ appended[3] # <<>>
    /\ Len(appended[3]) < BOOKS_PER_PAGE
    /\ Len(Concat(appended)) = LibraryLen

(***************************************************************************)
(* Calls out of order.                                                     *)
(***************************************************************************)
\* C3: a loadFirstPage called while the page is set throws the
\* already-loaded error and renders nothing again: the window is as it was.
\* A second call in a row therefore does not repeat the first.
C3_SecondFirstPageThrows ==
    [][(page # Null /\ lastOp' = "loadFirstPage") =>
          /\ thrown' = "The first page has already been loaded"
          /\ UNCHANGED window]_vars

\* loadFirstPage was rejected on a window that holds a loaded page
C3_Witness ==
    /\ lastOp = "loadFirstPage"
    /\ thrown = "The first page has already been loaded"
    /\ page # Null
    /\ targetElement # <<>>

\* C4: a loadNextPage called while the page is null, on a new object or
\* after the source was replaced, throws the not-loaded error.
C4_NextPageBeforeFirstThrows ==
    [][(page = Null /\ lastOp' = "loadNextPage") =>
          /\ thrown' = "The first page has not been loaded yet"
          /\ page' = Null]_vars

\* loadNextPage was rejected after a replacement: the list still holds the
\* elements of the source before
C4_Witness ==
    /\ lastOp = "loadNextPage"
    /\ thrown = "The first page has not been loaded yet"
    /\ page = Null
    /\ targetElement # <<>>
    /\ Ids(targetElement) # IdPrefix(booksSource, Len(targetElement))

(***************************************************************************)
(* Replacing the source.                                                   *)
(***************************************************************************)
\* C5: whatever the state, a loadFirstPage that directly follows the
\* assignment of a source S2 returns normally, leaves exactly the elements
\* of the first min(36, |S2|) books of S2 in the list and max(0, |S2| - 36)
\* on the button: nothing of the list or the count before survives.
C5_ReplaceThenFirstPage ==
    [][(lastOp = "set currentBooksSource" /\ lastOp' = "loadFirstPage") =>
          /\ thrown' = "none"
          /\ booksSource' = booksSource
          /\ targetElement' = RenderedPrefix(booksSource, BOOKS_PER_PAGE)
          /\ showMoreButton'.remaining =
                 Max(0, Len(booksSource) - BOOKS_PER_PAGE)]_vars

\* a first page loaded after a replacement made on an exhausted window: the
\* button is still disabled from then, with books of the new source left
\* to load
C5_Witness ==
    /\ Loaded("loadFirstPage")
    /\ showMoreButton.disabled
    /\ showMoreButton.remaining > 0
    /\ Len(targetElement) = BOOKS_PER_PAGE
    /\ booksSource # SubSeq(books, 1, Len(booksSource))

\* C7: right after a source is assigned the page is null and the range is
\* [0, 36) again, and a loadNextPage made while the page is still null has
\* been rejected.
C7_ReplaceResets ==
    /\ lastOp = "set currentBooksSource" =>
           /\ page = Null
           /\ range = [start |-> 0, end |-> BOOKS_PER_PAGE]
    /\ (lastOp = "loadNextPage" /\ page = Null) =>
           thrown = "The first page has not been loaded yet"

\* a source was assigned to a window whose range had moved on, so that the
\* list holds more than one page of the source before
C7_Witness ==
    /\ lastOp = "set currentBooksSource"
    /\ page = Null
    /\ range.start = 0
    /\ Len(targetElement) > BOOKS_PER_PAGE

(***************************************************************************)
(* Exhaustion.                                                             *)
(***************************************************************************)
\* C6: a loadNextPage called when page * 36 >= |S| returns normally,
\* appends nothing and leaves the count 0 on the button; the state it
\* leaves satisfies the same condition, so the same holds of every further
\* call.
C6_NextPageWhenExhausted ==
    [][(/\ page # Null
        /\ page * BOOKS_PER_PAGE >= Len(booksSource)
        /\ lastOp' = "loadNextPage") =>
          /\ thrown' = "none"
          /\ targetElement' = targetElement
          /\ showMoreButton'.remaining = 0
          /\ page' * BOOKS_PER_PAGE >= Len(booksSource')]_vars

\* two loadNextPage calls in a row on an exhausted, non-empty source
C6_Witness ==
    /\ Loaded("loadNextPage")
    /\ Len(appended) >= 3
    /\ appended[Len(appended)] = <<>>
    /\ appended[Len(appended) - 1] = <<>>
    /\ targetElement # <<>>
    /\ showMoreButton.remaining = 0

(***************************************************************************)
(* The page counter and the count on the button.                           *)
(***************************************************************************)
\* C8: while no source is assigned, the page stays null until a
\* loadFirstPage returns normally, is 1 after that call, and from then on
\* changes only in a loadNextPage that returns normally, by exactly one: it
\* never goes down and never skips a value.
C8_PageSteps ==
    [][/\ page = Null =>
              \/ page' = Null
              \/ page' = 1 /\ lastOp' = "loadFirstPage" /\ thrown' = "none"
       /\ (lastOp' = "loadFirstPage" /\ thrown' = "none") =>
              page = Null /\ page' = 1
       /\ (page # Null /\ lastOp' # "set currentBooksSource") =>
              IF lastOp' = "loadNextPage" /\ thrown' = "none"
              THEN page' = page + 1
              ELSE page' = page]_vars

\* the third page was reached by a loadNextPage
C8_Witness ==
    /\ Loaded("loadNextPage")
    /\ page = 3
    /\ Len(appended) = 3

\* C9: after every load method that returns normally the count on the
\* button is max(0, |S| - page * 36) for the source S then current, and so
\* never negative.
C9_RemainingShown ==
    (Loaded("loadFirstPage") \/ Loaded("loadNextPage")) =>
        /\ showMoreButton.remaining =
               Max(0, Len(booksSource) - page * BOOKS_PER_PAGE)
        /\ showMoreButton.remaining >= 0

\* a page was loaded past the end of a non-empty source: the difference is
\* negative and the button shows 0
C9_Witness ==
    /\ Loaded("loadNextPage")
    /\ booksSource # <<>>
    /\ Len(booksSource) - page * BOOKS_PER_PAGE < 0
    /\ showMoreButton.remaining = 0

\* C10, as claimed: once the first page is loaded, page * 36, the end of
\* the slice range, is at most the length of the source.
C10_CursorWithinLength ==
    page # Null =>
        /\ page * BOOKS_PER_PAGE <= Len(booksSource)
        /\ range.end <= Len(booksSource)

\* C10, amended: once the first page is loaded, the number of elements in
\* the list is page * 36 capped at the length of the source, so it is at
\* most that length; page * 36 itself exceeds the length only with the
\* button disabled and showing 0.
C10_RenderedWithinLength ==
    page # Null =>
        /\ Len(targetElement) =
               Min(page * BOOKS_PER_PAGE, Len(booksSource))
        /\ Len(targetElement) <= Len(booksSource)
        /\ page * BOOKS_PER_PAGE > Len(booksSource) =>
               showMoreButton.disabled /\ showMoreButton.remaining = 0

\* the end of the range is past the end of a source of more than one page,
\* all of whose books are in the list
C10_Witness ==
    /\ page # Null
    /\ range.end > Len(booksSource)
    /\ Len(booksSource) > BOOKS_PER_PAGE
    /\ Len(targetElement) = Len(booksSource)

(***************************************************************************)
(* The show-more button.                                                   *)
(***************************************************************************)
\* C11: whenever a load method returns with the count 0 on the button, the
\* button is disabled.
C11_ZeroDisables ==
    ((Loaded("loadFirstPage") \/ Loaded("loadNextPage"))
        /\ showMoreButton.remaining = 0) => showMoreButton.disabled

\* the second page took the last books of a source of more than one page,
\* which left the count 0 and the button disabled
C11_Witness ==
    /\ Loaded("loadNextPage")
    /\ page = 2
    /\ appended[2] # <<>>
    /\ Len(booksSource) > BOOKS_PER_PAGE
    /\ showMoreButton.remaining = 0
    /\ showMoreButton.disabled

\* C12: after a load method returns, over any sequence of loads and
\* replacements, the button is disabled only if max(0, |S| - page * 36) = 0
\* for the current source S.
C12_DisabledOnlyWhenExhausted ==
    ((Loaded("loadFirstPage") \/ Loaded("loadNextPage"))
        /\ showMoreButton.disabled) =>
            Max(0, Len(booksSource) - page * BOOKS_PER_PAGE) = 0

(***************************************************************************)
(* What a replacement touches.                                             *)
(***************************************************************************)
\* C13: right after a source is assigned, before any loadFirstPage, the
\* page is null and the list is empty.
C13_ReplaceClears ==
    lastOp = "set currentBooksSource" =>
        /\ page = Null
        /\ targetElement = <<>>

C15_EmptySource ==
    [][(/\ lastOp = "set currentBooksSource"
        /\ booksSource = <<>>
        /\ lastOp' = "loadFirstPage") =>
          /\ thrown' = "none"
          /\ targetElement' = <<>>
          /\ showMoreButton'.remaining = 0
          /\ page' = 1
          /\ booksSource' = <<>>]_vars

\* the first page of the empty source is loaded
C15_Witness ==
    /\ Loaded("loadFirstPage")
    /\ booksSource = <<>>
    /\ appended = << <<>> >>
    /\ targetElement = <<>>
    /\ page = 1
    /\ showMoreButton.remaining = 0

(***************************************************************************)
(* What cannot be changed from outside.                                    *)
(***************************************************************************)
\* C16: every assignment to currentPage throws and leaves the page, the
\* range, the source and the list as they were.
C16_PageNotAssignable ==
    [][lastOp' = "set currentPage" =>
          /\ thrown' = "Cannot change the page number"
          /\ UNCHANGED <<page, range, booksSource, targetElement>>]_vars

\* an assignment to currentPage was rejected on a window two pages in
C16_Witness ==
    /\ lastOp = "set currentPage"
    /\ thrown = "Cannot change the page number"
    /\ page = 2
    /\ range.end = 2 * BOOKS_PER_PAGE

\* C17: the load methods leave the source as it is, in length, content and
\* order; the source changes only in an assignment of currentBooksSource.
C17_SourceReadOnly ==
    [][/\ lastOp' \in {"loadFirstPage", "loadNextPage"} =>
              booksSource' = booksSource
       /\ booksSource' # booksSource =>
              lastOp' = "set currentBooksSource"]_vars

\* three pages were cut out of the whole library, which is still the source
C17_Witness ==
    /\ Loaded("loadNextPage")
    /\ page = 3
    /\ booksSource = books
    /\ Len(targetElement) = LibraryLen

\* C18, as claimed: while the page is null after a replacement, the count
\* reported for the window, the one on the button, is the length of the new
\* source.
C18_FullLengthWhileNull ==
    (/\ lastOp = "set currentBooksSource"
     /\ page = Null
     /\ showMoreButton.remaining # Null) =>
        showMoreButton.remaining = Len(booksSource)

\* C18, amended: no step that leaves the page null writes the button: while
\* the page is null the button keeps the count it showed before the
\* replacement.
C18_CountKeptWhileNull ==
    [][page' = Null => showMoreButton' = showMoreButton]_vars

\* the page is null after a replacement and the button still shows the
\* count of the source before, which is not the length of the new one
C18_Witness ==
    /\ lastOp = "set currentBooksSource"
    /\ page = Null
    /\ showMoreButton.remaining > 0
    /\ showMoreButton.remaining # Len(booksSource)
    /\ showMoreButton.remaining > Len(booksSource) - BOOKS_PER_PAGE

(***************************************************************************)
(* The search.                                                             *)
(***************************************************************************)
\* two characters are the same letter, whatever their case
SameLetter(x, y) ==
    \/ x = y
    \/ {x, y} = {"a", "A"}
    \/ {x, y} = {"b", "B"}

\* the text holds the typed title somewhere, case put aside
ContainsNoCase(text, typed) ==
    \E o \in 0..(Len(text) - Len(typed)) :
        \A j \in 1..Len(typed) : SameLetter(text[o + j], typed[j])

\* the typed title is blank once trimmed
Blank(typed) == \A j \in 1..Len(typed) : typed[j] = " "

\* the book is one the filters ask for
Wanted(f, b) ==
    /\ Blank(f.title) \/ ContainsNoCase(b.title, f.title)
    /\ f.author = any \/ b.author = f.author
    /\ f.genre = any \/ \E g \in 1..Len(b.genres) : b.genres[g] = f.genre

\* the positions of the library that hold a wanted book
WantedAt(lib, f) == {i \in 1..Len(lib) : Wanted(f, lib[i])}

\* the sub-sequence of the library made of the wanted books, in library
\* order: its k-th book is the one at the k-th smallest wanted position
WantedBooks(lib, f) ==
    LET at == WantedAt(lib, f)
    IN [k \in 1..Cardinality(at) |->
           lib[CHOOSE i \in at : Cardinality({j \in at : j <= i}) = k]]

\* C19: after a search submission the computed result, which the handler
\* hands to the window as its source, is exactly the sub-sequence of the
\* library, in library order, of the books whose title holds the typed
\* title case-insensitively (or the typed title is blank once trimmed),
\* whose author is the chosen one (or "any") and one of whose genres is the
\* chosen one (or "any"); the library is the one of data.js still.
C19_SearchResult ==
    lastOp = "handleBookFilterSearch" =>
        /\ booksSource = WantedBooks(library, filters)
        /\ library = books

\* a search by a title typed in mixed case, an author and a genre that
\* found some books of the library and left others out
C19_Witness ==
    /\ lastOp = "handleBookFilterSearch"
    /\ filters.title = <<"a", "B">>
    /\ filters.author # any
    /\ filters.genre # any
    /\ Len(booksSource) > 0
    /\ Len(booksSource) < Len(library)
    /\ library = books

\* C20: after a search submission, whatever the state before it, the
\* source of the window is the filtered result, the page is 1 and the list
\* holds exactly the elements of the first min(36, |result|) books of the
\* result, nothing of what was rendered before.
C20_SearchReloads ==
    lastOp = "handleBookFilterSearch" =>
        /\ thrown = "none"
        /\ booksSource = searchResult(library, filters)
        /\ page = 1
        /\ targetElement = RenderedPrefix(booksSource, BOOKS_PER_PAGE)
        /\ Len(targetElement) = Min(BOOKS_PER_PAGE, Len(booksSource))

\* a search submitted once the whole library had been rendered (the button
\* was disabled then and has stayed so): the result is longer than a page
\* and the list holds its first 36 books only
C20_Witness ==
    /\ lastOp = "handleBookFilterSearch"
    /\ showMoreButton.disabled
    /\ Len(booksSource) > BOOKS_PER_PAGE
    /\ Len(targetElement) = BOOKS_PER_PAGE
    /\ page = 1

\* C21: after every search submission the no-results message is shown if
\* and only if the filtered result is empty, so a search with a match
\* hides the message an earlier empty search has shown.
C21_MessageIffEmpty ==
    [][lastOp' = "handleBookFilterSearch" =>
           /\ message' <=> Len(searchResult(library, filters')) = 0
           /\ (message /\ Len(booksSource') > 0) => ~message']_vars

\* the message is shown after an empty search, and a search with a match
\* can be submitted next, which hides it
C21_Witness ==
    /\ lastOp = "handleBookFilterSearch"
    /\ message
    /\ Len(booksSource) = 0
    /\ ENABLED (handleBookFilterSearch /\ Len(booksSource') > 0 /\ ~message')

\* C22, as claimed: after a search submission whose result has more than
\* 36 books, books of the result remain undisplayed and the show-more
\* button is enabled, so that a click can load the next filtered page.
C22_MoreAfterSearch ==
    (/\ lastOp = "handleBookFilterSearch"
     /\ Len(booksSource) > BOOKS_PER_PAGE) =>
        /\ Len(targetElement) < Len(booksSource)
        /\ ~showMoreButton.disabled
        /\ ENABLED showMoreClick

(***************************************************************************)
(* The dialogs.                                                            *)
(***************************************************************************)
\* C23: a click that calls handleToggleDialog(feature) flips the open
\* state of the dialog of that feature and of no other, and toggling the
\* same feature once more gives back the state before the click.
C23_ToggleFlipsOne ==
    [][lastOp' = "handleToggleDialog" =>
           \E feature \in Features :
               /\ dialog'[feature] = ~dialog[feature]
               /\ \A other \in Features \ {feature} :
                      dialog'[other] = dialog[other]
               /\ handleToggleDialog(dialog', feature) = dialog]_vars

\* a toggle has left the search dialog closed while the settings dialog,
\* which it did not touch, is open
C23_Witness ==
    /\ lastOp = "handleToggleDialog"
    /\ ~dialog["search"]
    /\ dialog["settings"]
    /\ ENABLED toggleClick("search")

(***************************************************************************)
(* The window behind the event listeners.                                  *)
(***************************************************************************)
\* C24: in the wired application no sequence of clicks and submissions
\* raises either error of the window, and between two event handlers the
\* page is never null.
C24_NoErrorWhenWired ==
    /\ thrown = "none"
    /\ page # Null

\* a show-more click has loaded the second page of the result of a search
\* by title
C24_Witness ==
    /\ lastOp = "loadNextPage"
    /\ thrown = "none"
    /\ page = 2
    /\ filters.title = <<"a">>
    /\ Len(targetElement) > BOOKS_PER_PAGE

\* C25: whatever the order of show-more clicks and search submissions, the
\* list between two handlers holds exactly the elements of the first
\* min(|S|, page * 36) books of the current source S, in order: nothing of
\* an earlier source and no book twice.
C25_ListIsPrefixOfSource ==
    /\ targetElement = RenderedPrefix(booksSource, page * BOOKS_PER_PAGE)
    /\ \A i, j \in 1..Len(targetElement) :
           targetElement[i].id = targetElement[j].id => i = j

\* a show-more click after a search by author: the list holds both pages
\* of the result, which is a proper part of the library
C25_Witness ==
    /\ lastOp = "loadNextPage"
    /\ page = 2
    /\ filters.author # any
    /\ Len(booksSource) > BOOKS_PER_PAGE
    /\ Len(booksSource) < Len(library)
    /\ Len(targetElement) = Len(booksSource)

(***************************************************************************)
(* Rejected calls and the range.                                           *)
(***************************************************************************)
\* C26: a load call that throws, loadFirstPage on a loaded page or
\* loadNextPage on a null page, leaves the page, the range, the source, the
\* list, the count shown on the button and its disabled flag as they were
\* before the call.
C26_RejectedCallChangesNothing ==
    [][thrown' \in {"The first page has already been loaded",
                    "The first page has not been loaded yet"} =>
           /\ page' = page
           /\ range' = range
           /\ booksSource' = booksSource
           /\ targetElement' = targetElement
           /\ showMoreButton'.remaining = showMoreButton.remaining
           /\ showMoreButton'.disabled = showMoreButton.disabled]_vars

\* loadNextPage was rejected after a replacement, on a window whose list
\* and button still show the source before
C26_Witness ==
    /\ lastOp = "loadNextPage"
    /\ thrown = "The first page has not been loaded yet"
    /\ range = initialRange
    /\ showMoreButton.remaining > 0
    /\ Len(targetElement) > BOOKS_PER_PAGE

\* C27: in every reachable state of the class the range and the page are in
\* step: the range is [0, 36) while the page is null and
\* [(n - 1) * 36, n * 36) when the page is n, so its end is the page times
\* the page size.
C27_RangeInStep ==
    IF page = Null
    THEN range = [start |-> 0, end |-> BOOKS_PER_PAGE]
    ELSE /\ page >= 1
         /\ range = [start |-> (page - 1) * BOOKS_PER_PAGE,
                     end |-> page * BOOKS_PER_PAGE]

\* the source was replaced after several pages had been loaded: the page is
\* null and the range is back at the first page
C27_Witness ==
    /\ lastOp = "set currentBooksSource"
    /\ page = Null
    /\ range.start = 0
    /\ Len(targetElement) > BOOKS_PER_PAGE

(***************************************************************************)
(* The three variants.                                                     *)
(***************************************************************************)
\* C28: the class and the object of createBooksPreview, given the same
\* source and the same calls (a first loadFirstPage, then loadNextPage or a
\* replacement of the source followed by loadFirstPage), show after every
\* call the same list, the same remaining count and the same disabled flag
\* of the button.
C28_VariantsAgree ==
    /\ targetElement = booksPreviewObj.listItems
    /\ showMoreButton.remaining = booksPreviewObj.listButton.remaining
    /\ showMoreButton.disabled = booksPreviewObj.listButton.disabled

\* both have loaded the first page of a source assigned after another one
\* was exhausted: 36 previews in both lists, books remaining on both
\* buttons
C28_Witness ==
    /\ Loaded("loadFirstPage")
    /\ Len(booksPreviewObj.listItems) = BOOKS_PER_PAGE
    /\ Len(targetElement) = BOOKS_PER_PAGE
    /\ booksPreviewObj.listButton.remaining > 0
    /\ booksPreviewObj.listButton.disabled
    /\ booksPreviewObj.current.booksSource = booksSource

\* C29: createBookPreviewsHTML(S, n) returns the previews of exactly the
\* books S[n*36 .. min(|S|, (n+1)*36)), in order: 36 at most, and none when
\* n*36 >= |S|.
C29_FragmentIsPage ==
    lastOp = "createBookPreviewsHTML" =>
        LET S == fragmentArgs.booksSource
            n == fragmentArgs.pageNum
            from == Min(Len(S), n * BOOKS_PER_PAGE)
            to == Min(Len(S), (n + 1) * BOOKS_PER_PAGE)
        IN /\ bookPreviewsFragment =
                  [i \in 1..(to - from) |->
                      [id |-> S[from + i].id,
                       author |-> authors[S[from + i].author]]]
           /\ Len(bookPreviewsFragment) <= BOOKS_PER_PAGE
           /\ n * BOOKS_PER_PAGE >= Len(S) => bookPreviewsFragment = <<>>

\* the second page of a library of 40 books: its last 4 books
C29_Witness ==
    /\ lastOp = "createBookPreviewsHTML"
    /\ fragmentArgs.pageNum = 1
    /\ Len(fragmentArgs.booksSource) = 40
    /\ Ids(bookPreviewsFragment) = <<37, 38, 39, 40>>

\* C30: loadFirstPage of the object of createBooksPreview never throws and
\* is idempotent: from any state it sets the page to 1 and leaves exactly
\* the previews of the first min(36, |S|) books of the current source S in
\* the list, and a second call in a row changes nothing.
C30_ObjFirstPageIdempotent ==
    [][lastOp' = "booksPreviewObj.loadFirstPage" =>
           LET S == booksPreviewObj.current.booksSource
           IN /\ thrown' = "none"
              /\ booksPreviewObj'.current = [page |-> 1, booksSource |-> S]
              /\ booksPreviewObj'.listItems =
                     [i \in 1..Min(BOOKS_PER_PAGE, Len(S)) |->
                         [id |-> S[i].id, author |-> authors[S[i].author]]]
              /\ booksPreviewObj'.listButton.remaining =
                     Max(0, Len(S) - BOOKS_PER_PAGE)
              /\ objLoadFirstPage(booksPreviewObj') = booksPreviewObj']_vars

\* loadFirstPage was called on an object whose pages had all been loaded:
\* the page is 1 again and the list is back to 36 previews
C30_Witness ==
    /\ lastOp = "booksPreviewObj.loadFirstPage"
    /\ booksPreviewObj.current.page = 1
    /\ Len(booksPreviewObj.listItems) = BOOKS_PER_PAGE
    /\ booksPreviewObj.listButton.remaining > 0
    /\ booksPreviewObj.listButton.disabled

(***************************************************************************)
(* The remaining count over the loads of one source.                       *)
(***************************************************************************)
\* C31: from one load of a source to the next load of the same source the
\* remaining count never grows, and exhaustion is absorbing: once a load
\* has left the count at 0 and the button disabled, every later
\* loadNextPage on that source leaves the count at 0 and the button
\* disabled.  (A loadNextPage that returns normally follows a load of the
\* same source: the page is null after every replacement.)
C31_RemainingNeverGrows ==
    [][(lastOp' = "loadNextPage" /\ thrown' = "none") =>
           /\ booksSource' = booksSource
           /\ showMoreButton'.remaining <= showMoreButton.remaining
           /\ showMoreButton'.remaining >= 0
           /\ showMoreButton.remaining = 0 =>
                  /\ showMoreButton.disabled
                  /\ showMoreButton'.remaining = 0
                  /\ showMoreButton'.disabled]_vars

\* the whole library was loaded with the third page and a fourth
\* loadNextPage has run: the count is 0 and the button disabled still
C31_Witness ==
    /\ Loaded("loadNextPage")
    /\ Len(booksSource) > 2 * BOOKS_PER_PAGE
    /\ page * BOOKS_PER_PAGE >= Len(booksSource) + BOOKS_PER_PAGE
    /\ showMoreButton.remaining = 0
    /\ showMoreButton.disabled

(***************************************************************************)
(* The preview dialog.                                                     *)
(***************************************************************************)
\* C32, as claimed: in every state a book-preview-dialog element reaches
\* through its connect callback, its open setter and its close button, the
\* open flag is true exactly when the inner dialog shows modally, and a
\* call that throws leaves the flag as it was.
C32_OpenIffModal ==
    [][/\ bookPreviewDialog'.open <=> bookPreviewDialog'.modal
       /\ thrown' # "none" =>
              bookPreviewDialog'.open = bookPreviewDialog.open]_vars
=============================================================================
